---- MODULE Spec2Model ----
(***************************************************************************)
(* D-PlaneOS real-time event daemon (src/app/daemons/realtime-monitor.py): *)
(* the snapshot-diff change detector of SystemMonitor, the WebSocket       *)
(* subscriber registry with its handshake, the broadcast fan-out, the tick *)
(* loop and the udev hot-plug listener.                                    *)
(***************************************************************************)
EXTENDS Integers, Sequences, FiniteSets, TLC

VARIABLES
    \* ---- SystemMonitor (the change detector) ----
    last_disk_state,    \* self.last_disk_state: dict disk -> info
    last_pool_state,    \* self.last_pool_state: dict pool -> info
    prev_disk_state,    \* history: last_disk_state as the latest detect_hardware_changes call found it
    prev_pool_state,    \* history: last_pool_state as the latest detect_pool_changes call found it
    hw_changes,         \* the list the latest detect_hardware_changes call built
    pool_changes,       \* the list the latest detect_pool_changes call built
    hw_calls,           \* history: has detect_hardware_changes been called
    pool_calls,         \* history: has detect_pool_changes been called
    \* ---- the environment ----
    alive,              \* per connection: neither the peer nor the server has closed it
    session_valid,      \* per connection: FALSE once the session of its token has expired
    \* ---- module globals ----
    clients,            \* the set `clients`
    system_state,       \* the dict `system_state`
    \* ---- handle_client, one coroutine per connection ----
    pc,                 \* where the connection's handler stands
    authOK,             \* history: validate_session returned True for the connection's token
    oracle_calls,       \* history: the validate_session calls made for the connection
    out,                \* history: what has been sent on the connection
    failedBc,           \* history: a broadcast send to the connection has failed
    lastStep,           \* history: what the latest step was, when it was the end of a
                        \* handshake or a turn of a handler's message loop
    \* ---- system_monitor_loop ----
    tpc,                \* where the tick loop stands
    cpu,                \* "tick" while the tick loop runs between two awaits that suspend
    ci,                 \* index of the change the tick loop is processing
    tickTargets,        \* history: the registry when this tick's state_update broadcast began
    \* ---- broadcast_event calls in flight (0: the tick loop's, 1..: udev tasks) ----
    bc,
    \* ---- alerting_system ----
    alerting,           \* the global `alerting`: TRUE for an AlertingSystem, FALSE for None
    config,             \* AlertingSystem.config
    alert_call,         \* history: the latest AlertingSystem.alert call and what it did
    alerted,            \* history: the alert calls the tick loop made in this tick
    \* ---- main ----
    worlds,             \* the environment: the readings the probes can return in this run
    upc,                \* where the udev listener stands
    proc                \* "running" until asyncio.run(main()) ends

detVars == <<last_disk_state, last_pool_state, prev_disk_state, prev_pool_state,
             hw_changes, pool_changes, hw_calls, pool_calls>>

authVars == <<authOK, oracle_calls, session_valid>>

hubVars == <<alive, clients, system_state, pc, authVars, out, failedBc, lastStep,
             tpc, cpu, ci, tickTargets, bc>>

histVars == <<prev_disk_state, prev_pool_state, hw_calls, pool_calls>>

alertVars == <<alerting, config, alert_call, alerted>>

mainVars == <<worlds, upc, proc>>

vars == <<detVars, hubVars, alertVars, mainVars>>

-----------------------------------------------------------------------------
(* Bounds and value domains of the checked instances.                      *)

MaxDisks == 2
DiskUniverse == <<"sda", "sdb", "sdc">>
DiskOrder == SubSeq(DiskUniverse, 1, MaxDisks)   \* lsblk lists block devices in name order
DiskIds == {DiskOrder[i] : i \in 1..Len(DiskOrder)}

MaxPools == 2
PoolUniverse == <<"tank", "backup", "scratch">>
PoolOrder == SubSeq(PoolUniverse, 1, MaxPools)   \* zpool list output order
PoolIds == {PoolOrder[i] : i \in 1..Len(PoolOrder)}

NoneVal == -1                \* Python's None in an optional numeric field
TempThreshold == 50
TempDelta == 5

Temps == {NoneVal, 45, 58}                 \* 'temperature': None | int
Healths == {"ONLINE", "DEGRADED"}          \* 'health': parts[5] of zpool list
Resilvers == {NoneVal, 40}                 \* 'resilver': None | {'progress': ...}

DiskInfos == [temperature : Temps]
PoolInfos == [health : Healths, resilver : Resilvers]

\* every dict get_disk_stats / get_zfs_pool_stats can return over the domains
DiskSnapshots == UNION {[S -> DiskInfos] : S \in SUBSET DiskIds}
PoolSnapshots == UNION {[S -> PoolInfos] : S \in SUBSET {PoolOrder[1]}}
\* every dict get_zfs_pool_stats can return over all the pools
PoolReadings == UNION {[S -> PoolInfos] : S \in SUBSET PoolIds}

\* temperature readings around the warning threshold and the hysteresis step
TempReadings == {NoneVal, 0, 45, 52, 54, 57, 58}
DiskReadings == UNION {[S -> [temperature : TempReadings]] : S \in SUBSET DiskIds}

EmptyDict == <<>>

-----------------------------------------------------------------------------
(* Python helpers.                                                         *)

\* truthiness of an optional number: None and 0 are falsy
Truthy(v) == v # NoneVal /\ v # 0

\* the keys of a dict in iteration order
Keys(order, d) == SelectSeq(order, LAMBDA k : k \in DOMAIN d)

RECURSIVE Flatten(_)
Flatten(ss) == IF ss = <<>> THEN <<>> ELSE Head(ss) \o Flatten(Tail(ss))

-----------------------------------------------------------------------------
(* SystemMonitor.detect_hardware_changes: the diff of two disk dicts.      *)

\* the disk_added loop without its "not in self.last_disk_state" test
DiskAddedEvents_NoTest(last, cur) ==
    LET ks == Keys(DiskOrder, cur)
    IN  [i \in 1..Len(ks) |-> [type |-> "disk_added", disk |-> ks[i]]]

DiskAddedEvents(last, cur) ==
    LET ks == SelectSeq(Keys(DiskOrder, cur), LAMBDA d : d \notin DOMAIN last)
    IN  [i \in 1..Len(ks) |-> [type |-> "disk_added", disk |-> ks[i]]]

DiskRemovedEvents(last, cur) ==
    LET ks == SelectSeq(Keys(DiskOrder, last), LAMBDA d : d \notin DOMAIN cur)
    IN  [i \in 1..Len(ks) |-> [type |-> "disk_removed", disk |-> ks[i]]]

\* old_temp = self.last_disk_state.get(disk, {}).get('temperature', 0)
OldTemp(last, d) == IF d \in DOMAIN last THEN last[d].temperature ELSE 0

\* the temperature check with `>=` in the comparison against the prior reading
TempAlert_DeltaInclusive(last, cur, d) ==
    /\ Truthy(cur[d].temperature)
    /\ cur[d].temperature > TempThreshold
    /\ \/ ~Truthy(OldTemp(last, d))
       \/ cur[d].temperature >= OldTemp(last, d) + TempDelta

\* the temperature check without the comparison against the prior reading
TempAlert_NoHysteresis(last, cur, d) ==
    /\ Truthy(cur[d].temperature)
    /\ cur[d].temperature > TempThreshold

TempAlert(last, cur, d) ==
    /\ Truthy(cur[d].temperature)
    /\ cur[d].temperature > TempThreshold
    /\ \/ ~Truthy(OldTemp(last, d))
       \/ cur[d].temperature > OldTemp(last, d) + TempDelta

DiskTempEvents(last, cur) ==
    LET ks == SelectSeq(Keys(DiskOrder, cur), LAMBDA d : TempAlert(last, cur, d))
    IN  [i \in 1..Len(ks) |-> [type |-> "disk_temperature_warning", disk |-> ks[i],
                               temperature |-> cur[ks[i]].temperature]]

DetectHardwareChanges(last, cur) ==
    DiskAddedEvents(last, cur) \o DiskRemovedEvents(last, cur) \o DiskTempEvents(last, cur)

-----------------------------------------------------------------------------
(* SystemMonitor.detect_pool_changes: the diff of two pool dicts.          *)

\* old_info.get('resilver') with old_info = self.last_pool_state.get(pool, {})
OldResilver(last, p) == IF p \in DOMAIN last THEN last[p].resilver ELSE NoneVal
\* the comparison with the default the event uses
OldHealthCompared_Unknown(last, p) == IF p \in DOMAIN last THEN last[p].health ELSE "UNKNOWN"
\* old_info.get('health', 'ONLINE'): the value the fresh health is compared with
OldHealthCompared(last, p) == IF p \in DOMAIN last THEN last[p].health ELSE "ONLINE"
\* old_info.get('health', 'UNKNOWN'): the value the event carries
OldHealthReported(last, p) == IF p \in DOMAIN last THEN last[p].health ELSE "UNKNOWN"

ResilverPresent(r) == r # NoneVal      \* a non-empty dict is truthy

\* the per-pool checks with the completion test reduced to `old_info.get('resilver')`
PoolEvents_CompletedUnguarded(last, cur, p) ==
    (IF ResilverPresent(cur[p].resilver) /\ ~ResilverPresent(OldResilver(last, p))
     THEN <<[type |-> "resilver_started", pool |-> p, progress |-> cur[p].resilver]>>
     ELSE <<>>)
    \o
    (IF ResilverPresent(OldResilver(last, p))
     THEN <<[type |-> "resilver_completed", pool |-> p]>>
     ELSE <<>>)
    \o
    (IF cur[p].health # OldHealthCompared(last, p)
     THEN <<[type |-> "pool_health_change", pool |-> p,
             old_health |-> OldHealthReported(last, p), new_health |-> cur[p].health]>>
     ELSE <<>>)

PoolEvents(last, cur, p) ==
    (IF ResilverPresent(cur[p].resilver) /\ ~ResilverPresent(OldResilver(last, p))
     THEN <<[type |-> "resilver_started", pool |-> p, progress |-> cur[p].resilver]>>
     ELSE <<>>)
    \o
    (IF ~ResilverPresent(cur[p].resilver) /\ ResilverPresent(OldResilver(last, p))
     THEN <<[type |-> "resilver_completed", pool |-> p]>>
     ELSE <<>>)
    \o
    (IF cur[p].health # OldHealthCompared(last, p)
     THEN <<[type |-> "pool_health_change", pool |-> p,
             old_health |-> OldHealthReported(last, p), new_health |-> cur[p].health]>>
     ELSE <<>>)

DetectPoolChanges(last, cur) ==
    LET ks == Keys(PoolOrder, cur)
    IN  Flatten([i \in 1..Len(ks) |-> PoolEvents(last, cur, ks[i])])

-----------------------------------------------------------------------------
(* The detector's two calls as state transitions: acquire, diff, replace.  *)

\* the disk diff replacing the retained snapshot only when it found a change
detect_hardware_changes_KeepWhenQuiet(current_disks) ==
    /\ hw_changes' = DetectHardwareChanges(last_disk_state, current_disks)
    /\ last_disk_state' = IF hw_changes' = <<>> THEN last_disk_state ELSE current_disks

detect_hardware_changes(current_disks) ==
    /\ hw_changes' = DetectHardwareChanges(last_disk_state, current_disks)
    /\ last_disk_state' = current_disks

\* the pool diff keeping the records of the pools the fresh snapshot does not list
detect_pool_changes_KeepAbsent(current_pools) ==
    /\ pool_changes' = DetectPoolChanges(last_pool_state, current_pools)
    /\ last_pool_state' = [p \in DOMAIN current_pools \cup DOMAIN last_pool_state |->
                              IF p \in DOMAIN current_pools THEN current_pools[p]
                              ELSE last_pool_state[p]]

detect_pool_changes(current_pools) ==
    /\ pool_changes' = DetectPoolChanges(last_pool_state, current_pools)
    /\ last_pool_state' = current_pools

DetInit ==
    /\ last_disk_state = EmptyDict
    /\ last_pool_state = EmptyDict
    /\ prev_disk_state = EmptyDict
    /\ prev_pool_state = EmptyDict
    /\ hw_changes = <<>>
    /\ pool_changes = <<>>
    /\ hw_calls = FALSE
    /\ pool_calls = FALSE

\* the detector driven with every sequence of snapshots
DetectHW ==
    /\ \E cur \in DiskSnapshots : detect_hardware_changes(cur)
    /\ prev_disk_state' = last_disk_state
    /\ hw_calls' = TRUE
    /\ UNCHANGED <<last_pool_state, prev_pool_state, pool_changes, pool_calls>>

DetectPool ==
    /\ \E cur \in PoolSnapshots : detect_pool_changes(cur)
    /\ prev_pool_state' = last_pool_state
    /\ pool_calls' = TRUE
    /\ UNCHANGED <<last_disk_state, prev_disk_state, hw_changes, hw_calls>>

\* detect_pool_changes driven with every sequence of snapshots of all the pools
DetectPools ==
    /\ \E cur \in PoolReadings : /\ detect_pool_changes(cur)
                                 /\ lastStep' = [op |-> "detect_pool", current |-> cur]
    /\ prev_pool_state' = last_pool_state
    /\ pool_calls' = TRUE
    /\ UNCHANGED <<last_disk_state, prev_disk_state, hw_changes, hw_calls>>

\* detect_hardware_changes driven with every sequence of temperature readings
DetectTemps ==
    /\ \E cur \in DiskReadings : detect_hardware_changes(cur)
    /\ prev_disk_state' = last_disk_state
    /\ hw_calls' = TRUE
    /\ UNCHANGED <<last_pool_state, prev_pool_state, pool_changes, pool_calls>>

-----------------------------------------------------------------------------
(* alerting_system.AlertingSystem: the alert dispatcher.                   *)

\* the channels in the order alert() calls them
ChannelOrder == <<"email", "pushover", "ntfy", "webhook">>
Channels == {ChannelOrder[i] : i \in 1..Len(ChannelOrder)}
Priorities == {"normal", "warning", "critical"}
\* how a channel's transport can end: success, a response that is not 200, an exception
Outcomes == {"ok", "bad_status", "error"}

\* the keys of config['alerts'] in the default configuration
AlertNames == {"disk_added", "disk_removed", "disk_temp_warning", "disk_smart_failure",
               "pool_degraded", "resilver_started", "resilver_completed",
               "ups_on_battery", "ups_low_battery", "system_high_temp"}
\* load_config when /etc/dplaneos/alerting.json does not exist
DefaultConfig == [alerts  |-> [t \in AlertNames |-> TRUE],
                  enabled |-> [ch \in Channels |-> FALSE]]
\* the event types the dispatcher is driven with, and the configurations over them
CheckedNames == {"disk_added", "pool_degraded"}
Configs == {[alerts |-> a, enabled |-> e] :
               a \in UNION {[S -> BOOLEAN] : S \in SUBSET CheckedNames},
               e \in [Channels -> BOOLEAN]}

\* should_alert with True as the default of the lookup
should_alert_DefaultTrue(cfg, event_type) ==
    IF event_type \in DOMAIN cfg.alerts THEN cfg.alerts[event_type] ELSE TRUE

\* self.config['alerts'].get(event_type, False)
should_alert(cfg, event_type) ==
    IF event_type \in DOMAIN cfg.alerts THEN cfg.alerts[event_type] ELSE FALSE

\* the Pushover translation without its `elif priority == 'warning'` branch
PushoverPriority_NoWarning(priority) == IF priority = "critical" THEN 2 ELSE 0

PushoverPriority(priority) ==
    IF priority = "critical" THEN 2 ELSE IF priority = "warning" THEN 1 ELSE 0
NtfyPriority(priority) ==
    IF priority = "critical" THEN "urgent"
    ELSE IF priority = "warning" THEN "high" ELSE "default"
\* send_email: X-Priority 1 / Importance high for critical, no priority header otherwise
EmailPriority(priority) == IF priority = "critical" THEN "high" ELSE "none"
\* send_webhook puts the level itself into the payload
WebhookPriority(priority) == priority

\* the priority a channel's transport call carries
NativePriority(ch, priority) ==
    CASE ch = "email"    -> EmailPriority(priority)
      [] ch = "pushover" -> PushoverPriority(priority)
      [] ch = "ntfy"     -> NtfyPriority(priority)
      [] ch = "webhook"  -> WebhookPriority(priority)

\* a send_* call returns True: no exception, and status 200 where there is a response
ChannelOk(outcome) == outcome = "ok"

\* a send_* result that only tells whether the channel is enabled
ChannelResult_Enabled(cfg, ch, oc) == cfg.enabled[ch]

\* what send_<ch> returns
ChannelResult(cfg, ch, oc) == cfg.enabled[ch] /\ ChannelOk(oc[ch])

\* the transport call of a send_* method, if it makes one
ChannelCall(cfg, ch, priority, oc) ==
    IF cfg.enabled[ch]
    THEN <<[channel |-> ch, native |-> NativePriority(ch, priority), outcome |-> oc[ch]]>>
    ELSE <<>>

\* the four sends without the try/except of the send_* methods: the first transport
\* failure ends the fan-out
RECURSIVE ChannelSends_StopOnError(_, _, _, _)
ChannelSends_StopOnError(cfg, chs, priority, oc) ==
    IF chs = <<>> THEN <<>>
    ELSE ChannelCall(cfg, Head(chs), priority, oc)
         \o (IF cfg.enabled[Head(chs)] /\ ~ChannelOk(oc[Head(chs)]) THEN <<>>
             ELSE ChannelSends_StopOnError(cfg, Tail(chs), priority, oc))

\* the transport calls of send_email, send_pushover, send_ntfy, send_webhook, in order
RECURSIVE ChannelSends(_, _, _, _)
ChannelSends(cfg, chs, priority, oc) ==
    IF chs = <<>> THEN <<>>
    ELSE ChannelCall(cfg, Head(chs), priority, oc)
         \o ChannelSends(cfg, Tail(chs), priority, oc)

\* transport outcomes, one per channel that can make a transport call
OutcomeChoices(cfg) ==
    {oc \in [Channels -> Outcomes] : \A ch \in Channels : ~cfg.enabled[ch] => oc[ch] = "ok"}

\* the branches of the tick loop after a hardware change, without the temperature one
HwAlertType_NoTemp(type) ==
    CASE type = "disk_added" -> "disk_added"
      [] type = "disk_removed" -> "disk_removed"
      [] OTHER -> "none"

\* the event type the tick loop passes to alerting.alert after a hardware change
HwAlertType(type) ==
    CASE type = "disk_added" -> "disk_added"
      [] type = "disk_removed" -> "disk_removed"
      [] type = "disk_temperature_warning" -> "disk_temp_warning"
      [] OTHER -> "none"
\* the pool branches passing the change's own type to alerting.alert
PoolAlertType_Verbatim(type) ==
    CASE type \in {"pool_degraded", "pool_health_change", "resilver_started",
                   "resilver_completed"} -> type
      [] OTHER -> "none"

\* the event type the tick loop passes to alerting.alert after a pool change
PoolAlertType(type) ==
    CASE type \in {"pool_degraded", "pool_health_change"} -> "pool_degraded"
      [] type = "resilver_started" -> "resilver_started"
      [] type = "resilver_completed" -> "resilver_completed"
      [] OTHER -> "none"
\* the 'priority' of the AlertTemplates entry for an event type
TemplatePriority(event_type) ==
    CASE event_type \in {"disk_removed", "disk_temp_warning"} -> "warning"
      [] event_type = "pool_degraded" -> "critical"
      [] OTHER -> "normal"

NoCall == [event_type |-> "none", priority |-> "none", ret |-> "none",
           sends |-> <<>>, results |-> <<>>]

\* AlertingSystem.alert: what one call does and returns
alert(cfg, event_type, priority, oc) ==
    IF ~should_alert(cfg, event_type)
    THEN [event_type |-> event_type, priority |-> priority, ret |-> "none",
          sends |-> <<>>, results |-> <<>>]
    ELSE [event_type |-> event_type, priority |-> priority, ret |-> "results",
          sends |-> ChannelSends(cfg, ChannelOrder, priority, oc),
          results |-> [ch \in Channels |-> ChannelResult(cfg, ch, oc)]]

\* the dispatcher driven with every event type, level and transport outcome
Alert ==
    /\ \E t \in CheckedNames, p \in Priorities, oc \in [Channels -> Outcomes] :
          alert_call' = alert(config, t, p, oc)
    /\ UNCHANGED <<detVars, hubVars, mainVars, alerting, config, alerted>>

-----------------------------------------------------------------------------
(* The WebSocket hub: connections, the registry and broadcast_event.       *)

MaxConns == 2
ConnUniverse == <<"c1", "c2", "c3">>
ConnOrder == SubSeq(ConnUniverse, 1, MaxConns)   \* the connections, in the order they arrive
Conns == {ConnOrder[i] : i \in 1..Len(ConnOrder)}
MaxUdev == 1                      \* udev broadcast tasks that can be in flight at once
BcIds == 0..MaxUdev

\* what the probes can report while the hub is checked
HubWorlds ==
    {[disks |-> [d \in {"sda"} |-> [temperature |-> NoneVal]],
      zfs_pools |-> [p \in {"tank"} |-> [health |-> h, resilver |-> NoneVal]]] : h \in Healths}

\* what the probes can report while the tick loop and the listener are checked alone
MainWorlds ==
    {[disks |-> d, zfs_pools |-> p] :
        d \in UNION {[S -> [temperature : {NoneVal, 58}]] : S \in SUBSET {"sda"}},
        p \in UNION {[S -> PoolInfos] : S \in SUBSET {"tank"}}}

MaxSamples == 2                   \* acquisitions told apart by the fields they produced
\* what the probes can report while the snapshots sent are checked: 'cpu' and 'network'
\* stand for the reading of the acquisition that produced them
SnapWorlds ==
    {[cpu |-> n, network |-> n,
      disks |-> [d \in {"sda"} |-> [temperature |-> NoneVal]],
      zfs_pools |-> [p \in {"tank"} |-> [health |-> h, resilver |-> NoneVal]]] :
        n \in 1..MaxSamples, h \in Healths}

\* how the wait for the first message can end, by the branch of handle_client taken
AuthOutcomes == {"timeout",          \* asyncio.TimeoutError
                 "peer_closed",      \* recv() raises ConnectionClosed
                 "unparseable",      \* json.loads raises JSONDecodeError
                 "nonobject",        \* JSON that is no object: auth_data.get raises
                 "nocred",           \* an object with no (or a falsy) session_id
                 "rejected",         \* validate_session(session_id) is False
                 "accepted_nonstr",  \* validate_session is True, session_id[:16] raises
                 "accepted"}         \* validate_session is True
\* inbound messages of a registered subscriber
MsgKinds == {"ping", "request_state", "other_type", "unparseable", "nonobject"}

EventTypes == {"disk_added", "disk_removed", "disk_temperature_warning",
               "resilver_started", "resilver_completed", "pool_health_change"}
DataTypes == {"initial_state", "state_update", "hardware_event"} \cup EventTypes

\* one send call on a connection, as the history keeps it
Sent(o, type, src) ==
    [first |-> IF o.first = "none" THEN type ELSE o.first,
     data  |-> o.data \/ type \in DataTypes,
     tlog  |-> IF src \in {"tick", "register"}
               THEN Append(o.tlog, [type |-> type, src |-> src, data |-> system_state])
               ELSE o.tlog]
\* a send on a connection fails when the connection is gone
SendOk(c) == alive[c]

\* a broadcast_event call: the sends it gathered (targets), those not yet run (pending),
\* those run (sent), and whether a send's exception was raised out of the gather
IdleBc == [st |-> "idle", msg |-> "none", src |-> "none", targets |-> {}, pending |-> {},
           sent |-> {}, raised |-> FALSE]
\* [client.send(message) for client in clients]: one send per member of the registry now
NewBc(msg, src) ==
    [st |-> "sending", msg |-> msg, src |-> src, targets |-> clients, pending |-> clients,
     sent |-> {}, raised |-> FALSE]
\* the step that starts a broadcast, with the targets an earlier broadcast send failed for
BcStartStep == [op |-> "broadcast", stale |-> {c \in clients : failedBc[c]}]

\* gather without return_exceptions: the first failed send ends the broadcast
GatherAfterSend_Abort(b, c, ok) ==
    IF ok THEN [b EXCEPT !.pending = @ \ {c}, !.sent = @ \cup {c}]
    ELSE [b EXCEPT !.pending = {}, !.sent = @ \cup {c}, !.raised = TRUE]

\* asyncio.gather(..., return_exceptions=True): a failed send is kept as a result
GatherAfterSend(b, c, ok) ==
    [b EXCEPT !.pending = @ \ {c}, !.sent = @ \cup {c}]

\* validate_session(session_id) returned True
OracleAccepts(k) == k \in {"accepted", "accepted_nonstr"}

\* the handshake calling validate_session whatever the first message is
OracleAsked_Always(k) == TRUE

\* `not session_id or not validate_session(session_id)` is reached with a truthy
\* session_id: only then is validate_session called
OracleAsked(k) == k \in {"rejected", "accepted_nonstr", "accepted"}

\* `if not session_id and not validate_session(session_id)`
Registers_AndForOr(k) == k \in {"accepted", "rejected"}

\* the first message passes `if not session_id or not validate_session(session_id)`
\* and the log line after it
Registers(k) == k = "accepted"

\* the rejection branch without its send
ErrorReply_None(k) == FALSE

\* the first message takes the branch that sends the error message
ErrorReply(k) == k \in {"nocred", "rejected"}

\* register_client without its send
RegisterMessages_None == <<>>

\* what register_client sends right after clients.add
RegisterMessages == <<"initial_state">>

\* the tick's first broadcast under a tag that is not state_update
StateUpdateMessage_Untagged == "hardware_event"

\* the 'type' of the message the tick loop broadcasts after update_all_stats
StateUpdateMessage == "state_update"

RECURSIVE SentAll(_, _, _)
SentAll(o, types, src) ==
    IF types = <<>> THEN o ELSE SentAll(Sent(o, Head(types), src), Tail(types), src)

NoStep == [op |-> "none"]

\* the hub before any connection and any tick, but for the state cache
HubStart ==
    /\ alive = [c \in Conns |-> TRUE]
    /\ clients = {}
    /\ pc = [c \in Conns |-> "new"]
    /\ authOK = [c \in Conns |-> FALSE]
    /\ oracle_calls = [c \in Conns |-> 0]
    /\ session_valid = [c \in Conns |-> TRUE]
    /\ out = [c \in Conns |-> [first |-> "none", data |-> FALSE, tlog |-> <<>>]]
    /\ failedBc = [c \in Conns |-> FALSE]
    /\ lastStep = NoStep
    /\ tpc = "sleep"
    /\ cpu = "free"
    /\ ci = 0
    /\ tickTargets = {}
    /\ bc = [b \in BcIds |-> IdleBc]

HubInit ==
    /\ HubStart
    /\ system_state = [disks |-> EmptyDict, zfs_pools |-> EmptyDict]

\* the dispatcher as the daemon loads it when there is no configuration file
AlertInit ==
    /\ alerting = TRUE
    /\ config = DefaultConfig
    /\ alert_call = NoCall
    /\ alerted = <<>>

tickVars == <<tpc, cpu, ci, tickTargets>>
connVars == <<clients, pc, authVars, out>>

(* ---- the environment ---- *)

PeerClose(c) ==
    /\ proc = "running"
    /\ pc[c] \in {"reg_send", "loop"}
    /\ alive[c]
    /\ alive' = [alive EXCEPT ![c] = FALSE]
    /\ lastStep' = NoStep
    /\ UNCHANGED <<detVars, alertVars, mainVars, clients, system_state, pc, authVars, out, failedBc,
                   tickVars, bc>>

\* the session file of a connection's token is removed or becomes older than an hour
SessionExpires(c) ==
    /\ proc = "running"
    /\ session_valid[c]
    /\ session_valid' = [session_valid EXCEPT ![c] = FALSE]
    /\ lastStep' = NoStep
    /\ UNCHANGED <<detVars, alertVars, mainVars, alive, clients, system_state, pc, authOK,
                   oracle_calls, out, failedBc, tickVars, bc>>

(* ---- handle_client ---- *)

\* websockets.serve accepts a connection and starts handle_client, which awaits recv()
Connect(c) ==
    /\ proc = "running"
    /\ cpu = "free"
    /\ pc[c] = "new"
    /\ \A i, j \in 1..Len(ConnOrder) : (i < j /\ ConnOrder[j] = c) => pc[ConnOrder[i]] # "new"
    /\ pc' = [pc EXCEPT ![c] = "auth_wait"]
    /\ lastStep' = NoStep
    /\ UNCHANGED <<detVars, alertVars, mainVars, alive, clients, system_state, authVars, out, failedBc,
                   tickVars, bc>>

\* the wait for the first message ends; up to the next await that suspends
Handshake(c, k) ==
    /\ proc = "running"
    /\ cpu = "free"
    /\ pc[c] = "auth_wait"
    /\ OracleAccepts(k) => session_valid[c]
    /\ authOK' = [authOK EXCEPT ![c] = OracleAccepts(k)]
    /\ oracle_calls' = [oracle_calls EXCEPT ![c] = IF OracleAsked(k) THEN @ + 1 ELSE @]
    /\ UNCHANGED session_valid
    /\ lastStep' = [op |-> "handshake", c |-> c, kind |-> k]
    /\ IF Registers(k)
       THEN \* register_client: clients.add, then the initial_state send is started
            /\ clients' = clients \cup {c}
            /\ out' = [out EXCEPT ![c] = SentAll(@, RegisterMessages, "register")]
            /\ pc' = [pc EXCEPT ![c] = "reg_send"]
            /\ UNCHANGED alive
       ELSE \* the error message if any, websocket.close(), return
            /\ out' = [out EXCEPT ![c] = IF ErrorReply(k) THEN Sent(@, "error", "handshake")
                                         ELSE @]
            /\ pc' = [pc EXCEPT ![c] = "refused"]
            /\ alive' = [alive EXCEPT ![c] = FALSE]
            /\ UNCHANGED clients
    /\ UNCHANGED <<detVars, alertVars, mainVars, system_state, failedBc, tickVars, bc>>

\* `await websocket.send(initial_state)` in register_client returns or raises; the call
\* is outside handle_client's try, so a raise ends the handler with no unregister_client
RegisterSendDone(c) ==
    /\ proc = "running"
    /\ cpu = "free"
    /\ pc[c] = "reg_send"
    /\ pc' = [pc EXCEPT ![c] = IF SendOk(c) THEN "loop" ELSE "done"]
    /\ lastStep' = NoStep
    /\ UNCHANGED <<detVars, alertVars, mainVars, alive, clients, system_state, authVars, out, failedBc,
                   tickVars, bc>>

ReplyTo(k) == CASE k = "ping" -> <<"pong">>
                [] k = "request_state" -> <<"state_update">>
                [] OTHER -> <<>>

\* one turn of `async for message in websocket`
Receive(c, k) ==
    /\ proc = "running"
    /\ cpu = "free"
    /\ pc[c] = "loop"
    /\ LET reply == ReplyTo(k)
           \* data.get raises AttributeError on JSON that is no object; a failed reply
           \* raises ConnectionClosed: both leave through `finally`
           ends == k = "nonobject" \/ (reply # <<>> /\ ~SendOk(c))
       IN  /\ out' = [out EXCEPT ![c] = SentAll(@, reply, "reply")]
           /\ lastStep' = [op |-> "receive", c |-> c, kind |-> k, reply |-> reply, ended |-> ends]
           /\ pc' = [pc EXCEPT ![c] = IF ends THEN "done" ELSE "loop"]
           /\ clients' = IF ends THEN clients \ {c} ELSE clients
           \* the server closes the connection of a handler that has ended
           /\ alive' = IF ends THEN [alive EXCEPT ![c] = FALSE] ELSE alive
    /\ UNCHANGED <<detVars, alertVars, mainVars, system_state, authVars, failedBc, tickVars, bc>>

\* the iteration ends because the connection is closed: finally, unregister_client
LoopEnd(c) ==
    /\ proc = "running"
    /\ cpu = "free"
    /\ pc[c] = "loop"
    /\ ~alive[c]
    /\ pc' = [pc EXCEPT ![c] = "done"]
    /\ clients' = clients \ {c}
    /\ lastStep' = NoStep
    /\ UNCHANGED <<detVars, alertVars, mainVars, alive, system_state, authVars, out, failedBc,
                   tickVars, bc>>

(* ---- broadcast_event ---- *)

\* one of the gathered client.send(message) calls runs
BcSend(b, c) ==
    /\ proc = "running"
    /\ cpu = "free"
    /\ bc[b].st = "sending"
    /\ c \in bc[b].pending
    /\ out' = [out EXCEPT ![c] = Sent(@, bc[b].msg, bc[b].src)]
    /\ LET after == GatherAfterSend(bc[b], c, SendOk(c))
       IN  \* a udev task ends when its gather completes; the tick loop resumes later
           bc' = [bc EXCEPT ![b] = IF b > 0 /\ after.pending = {} THEN IdleBc ELSE after]
    /\ failedBc' = [failedBc EXCEPT ![c] = @ \/ ~SendOk(c)]
    /\ lastStep' = NoStep
    /\ UNCHANGED <<detVars, alertVars, mainVars, alive, clients, system_state, pc, authVars, tickVars>>

(* ---- UdevMonitor.watch_events ---- *)

\* handle_event pushing every action
Pushed_Any(action) == TRUE

\* `if action in ('add', 'remove')`
Pushed(action) == action \in {"add", "remove"}

\* monitor.poll returns a device; handle_event creates a broadcast task for add / remove
UdevPoll(action) ==
    /\ proc = "running" /\ upc = "polling"
    /\ cpu = "free"
    /\ IF Pushed(action)
       THEN \E b \in 1..MaxUdev :
              /\ bc[b].st = "idle"
              /\ \A b2 \in 1..(b - 1) : bc[b2].st # "idle"
              /\ bc' = [bc EXCEPT ![b] = [IdleBc EXCEPT !.st = "created"]]
       ELSE UNCHANGED bc
    /\ lastStep' = NoStep
    /\ UNCHANGED <<detVars, alertVars, mainVars, alive, connVars, system_state, failedBc, tickVars>>

\* the task created by handle_event starts running broadcast_event
UdevBcStart(b) ==
    /\ proc = "running"
    /\ cpu = "free"
    /\ b \in 1..MaxUdev
    /\ bc[b].st = "created"
    /\ bc' = [bc EXCEPT ![b] = IF clients = {} THEN IdleBc ELSE NewBc("hardware_event", "udev")]
    /\ lastStep' = IF clients = {} THEN NoStep ELSE BcStartStep
    /\ UNCHANGED <<detVars, alertVars, mainVars, alive, connVars, system_state, failedBc, tickVars>>

\* monitor.poll raises: caught inside the polling loop, which goes on
UdevPollError ==
    /\ proc = "running" /\ upc = "polling"
    /\ cpu = "free"
    /\ lastStep' = [op |-> "udev_error"]
    /\ UNCHANGED <<detVars, alertVars, mainVars, alive, connVars, system_state, failedBc,
                   tickVars, bc>>

(* ---- main ---- *)

\* main(): `udev_monitor = UdevMonitor()` inside try; on success the listener task is
\* created, on an exception udev_task = None
MainStartUdev(ok) ==
    /\ proc = "running" /\ upc = "init"
    /\ upc' = IF ok THEN "created" ELSE "absent"
    /\ lastStep' = NoStep
    /\ UNCHANGED <<detVars, alertVars, worlds, proc, alive, connVars, system_state, failedBc,
                   tickVars, bc>>

\* the listener task starts: self.monitor.start() is outside the try of the polling
\* loop; if it raises, the task fails, `await asyncio.gather(ws_server, monitor_task,
\* udev_task)` raises in main(), and asyncio.run cancels the remaining tasks
UdevStart(ok) ==
    /\ proc = "running" /\ upc = "created"
    /\ cpu = "free"
    /\ upc' = IF ok THEN "polling" ELSE "failed"
    /\ proc' = IF ok THEN "running" ELSE "exited"
    /\ lastStep' = NoStep
    /\ UNCHANGED <<detVars, alertVars, worlds, alive, connVars, system_state, failedBc,
                   tickVars, bc>>

\* how the process can be told to stop: SIGINT raises KeyboardInterrupt, which
\* `asyncio.run` answers by cancelling every task; SIGTERM has no handler
Signals == {"SIGINT", "SIGTERM"}

\* the process is stopped by a signal. On SIGINT every task is cancelled at its await:
\* a handler inside the message loop leaves through `finally: unregister_client`, a
\* handler awaiting the handshake or the send of register_client just ends, and a
\* gather of broadcast_event is cancelled with the sends it has not run. On SIGTERM
\* the process ends where it is
Shutdown(sig) ==
    /\ proc = "running"
    /\ sig = "SIGINT" => cpu = "free"       \* a cancellation takes effect at an await
    /\ proc' = "exited"
    /\ IF sig = "SIGINT"
       THEN /\ clients' = clients \ {c \in Conns : pc[c] = "loop"}
            /\ pc' = [c \in Conns |-> IF pc[c] \in {"auth_wait", "reg_send", "loop"}
                                      THEN "done" ELSE pc[c]]
            /\ bc' = [b \in BcIds |-> IF bc[b].st = "sending"
                                      THEN [bc[b] EXCEPT !.st = "cancelled"] ELSE bc[b]]
       ELSE UNCHANGED <<clients, pc, bc>>
    /\ lastStep' = [op |-> "shutdown", sig |-> sig]
    /\ UNCHANGED <<detVars, alertVars, worlds, upc, alive, system_state, authVars, out,
                   failedBc, tickVars>>

(* ---- system_monitor_loop ---- *)

\* the keys of system_state in the order update_all_stats assigns them
FieldOrder == <<"cpu", "memory", "disks", "zfs_pools", "docker", "network">>
\* the probes with a call outside a catch-all try: psutil.cpu_percent and the sensors
\* subprocess, psutil.virtual_memory, psutil.net_io_counters
RaisingProbes == {"cpu", "memory", "network"}
\* system_state when the probe of field f raised: the fields assigned before it hold
\* the fresh values, f and the fields after it the values they had
UpdatedUpTo(old, new, f) ==
    LET k == CHOOSE i \in 1..Len(FieldOrder) : FieldOrder[i] = f
    IN  [g \in DOMAIN old |-> IF \E i \in 1..(k - 1) : FieldOrder[i] = g THEN new[g]
                              ELSE old[g]]

\* the sleep ends and update_all_stats raises (a psutil probe fails): `except Exception`
\* prints, and the loop sleeps again. system_state keeps the fields assigned before
\* the raise
TickUpdateError ==
    /\ proc = "running"
    /\ cpu = "free"
    /\ tpc = "sleep"
    /\ \E w \in worlds, f \in RaisingProbes : system_state' = UpdatedUpTo(system_state, w, f)
    /\ lastStep' = [op |-> "tick_error"]
    /\ UNCHANGED <<detVars, alertVars, mainVars, alive, connVars, failedBc, tickVars, bc>>

\* `await broadcast_event(...)` in the tick loop: suspends only when there are clients
TickBroadcast(msg, waitPc, contPc) ==
    IF clients = {}
    THEN /\ tpc' = contPc /\ cpu' = "tick" /\ UNCHANGED bc
         /\ lastStep' = NoStep
    ELSE /\ tpc' = waitPc /\ cpu' = "free"
         /\ bc' = [bc EXCEPT ![0] = NewBc(msg, "tick")]
         /\ lastStep' = BcStartStep

\* the sleep ends: update_all_stats, then the state_update broadcast is started
TickUpdate ==
    /\ proc = "running"
    /\ cpu = "free"
    /\ tpc = "sleep"
    /\ \E w \in worlds : system_state' = w
    /\ out' = [c \in Conns |-> [out[c] EXCEPT !.tlog = <<>>]]
    /\ tickTargets' = clients
    /\ TickBroadcast(StateUpdateMessage, "bc_state", "detect_hw")
    /\ UNCHANGED <<detVars, alertVars, mainVars, alive, clients, pc, authVars, failedBc, ci>>

\* the gather of the tick loop's broadcast completes and the loop resumes
TickBcDone ==
    /\ proc = "running"
    /\ cpu = "free"
    /\ tpc \in {"bc_state", "bc_hw", "bc_pool"}
    /\ bc[0].st = "sending"
    /\ bc[0].pending = {}
    /\ bc' = [bc EXCEPT ![0] = IdleBc]
    /\ IF bc[0].raised
       THEN tpc' = "sleep" /\ cpu' = "free"       \* except Exception; asyncio.sleep(2)
       ELSE /\ cpu' = "tick"
            /\ tpc' = CASE tpc = "bc_state" -> "detect_hw"
                        [] tpc = "bc_hw" -> "alert_hw"
                        [] tpc = "bc_pool" -> "alert_pool"
    /\ lastStep' = [op |-> "bcdone", targets |-> bc[0].targets, sent |-> bc[0].sent,
                    raised |-> bc[0].raised]
    /\ UNCHANGED <<detVars, alertVars, mainVars, alive, connVars, system_state, failedBc, ci, tickTargets>>

TickDetectHW ==
    /\ proc = "running"
    /\ cpu = "tick"
    /\ tpc = "detect_hw"
    /\ \E w \in worlds : /\ detect_hardware_changes(w.disks)
                         /\ lastStep' = [op |-> "detect_hw", current |-> w.disks]
    /\ ci' = 1
    /\ tpc' = "hw_loop"
    /\ UNCHANGED <<last_pool_state, pool_changes, histVars, alertVars, mainVars,
                   alive, connVars, system_state, failedBc, cpu, tickTargets, bc>>

\* `for change in hw_changes: await broadcast_event(change)`
TickHwNext ==
    /\ proc = "running"
    /\ cpu = "tick"
    /\ tpc = "hw_loop"
    /\ IF ci > Len(hw_changes)
       THEN tpc' = "detect_pool" /\ lastStep' = NoStep /\ UNCHANGED <<cpu, bc>>
       ELSE TickBroadcast(hw_changes[ci].type, "bc_hw", "alert_hw")
    /\ UNCHANGED <<detVars, alertVars, mainVars, alive, connVars, system_state, failedBc, ci, tickTargets>>

\* `if alerting:` and the branch for the change's type: at most one alerting.alert call
TickAlert(change, event_type) ==
    IF alerting /\ event_type # "none"
    THEN /\ \E oc \in OutcomeChoices(config) :
               alert_call' = alert(config, event_type, TemplatePriority(event_type), oc)
         /\ alerted' = Append(alerted, [change |-> change, event_type |-> event_type])
    ELSE UNCHANGED <<alert_call, alerted>>

\* the alert of the hardware change just broadcast
TickHwAlert ==
    /\ proc = "running"
    /\ cpu = "tick"
    /\ tpc = "alert_hw"
    /\ TickAlert(hw_changes[ci], HwAlertType(hw_changes[ci].type))
    /\ ci' = ci + 1
    /\ tpc' = "hw_loop"
    /\ lastStep' = NoStep
    /\ UNCHANGED <<detVars, alerting, config, mainVars, alive, connVars, system_state,
                   failedBc, cpu, tickTargets, bc>>

TickDetectPool ==
    /\ proc = "running"
    /\ cpu = "tick"
    /\ tpc = "detect_pool"
    /\ \E w \in worlds : /\ detect_pool_changes(w.zfs_pools)
                         /\ lastStep' = [op |-> "detect_pool", current |-> w.zfs_pools]
    /\ ci' = 1
    /\ tpc' = "pool_loop"
    /\ UNCHANGED <<last_disk_state, hw_changes, histVars, alertVars, mainVars,
                   alive, connVars, system_state, failedBc, cpu, tickTargets, bc>>

\* `for change in pool_changes: await broadcast_event(change)`, then asyncio.sleep(2)
TickPoolNext ==
    /\ proc = "running"
    /\ cpu = "tick"
    /\ tpc = "pool_loop"
    /\ IF ci > Len(pool_changes)
       THEN \* asyncio.sleep(2); the iteration's locals are dead
            /\ tpc' = "sleep" /\ cpu' = "free" /\ UNCHANGED bc
            /\ hw_changes' = <<>> /\ pool_changes' = <<>> /\ ci' = 0
            /\ out' = [c \in Conns |-> [out[c] EXCEPT !.tlog = <<>>]]
            /\ tickTargets' = {}
            /\ alert_call' = NoCall /\ alerted' = <<>>
            /\ lastStep' = NoStep
       ELSE /\ TickBroadcast(pool_changes[ci].type, "bc_pool", "alert_pool")
            /\ UNCHANGED <<hw_changes, pool_changes, ci, out, tickTargets, alert_call, alerted>>
    /\ UNCHANGED <<last_disk_state, last_pool_state, histVars, mainVars, alerting, config,
                   alive, clients, pc, authVars, system_state, failedBc>>

\* the alert of the pool change just broadcast
TickPoolAlert ==
    /\ proc = "running"
    /\ cpu = "tick"
    /\ tpc = "alert_pool"
    /\ TickAlert(pool_changes[ci], PoolAlertType(pool_changes[ci].type))
    /\ ci' = ci + 1
    /\ tpc' = "pool_loop"
    /\ lastStep' = NoStep
    /\ UNCHANGED <<detVars, alerting, config, mainVars, alive, connVars, system_state,
                   failedBc, cpu, tickTargets, bc>>

-----------------------------------------------------------------------------
(* Specifications.                                                         *)

\* the tasks of main() started, the udev listener polling
MainInit ==
    /\ worlds = HubWorlds
    /\ upc = "polling"
    /\ proc = "running"

Init == DetInit /\ HubInit /\ AlertInit /\ MainInit

Next ==
    \/ \E c \in Conns : PeerClose(c)
    \/ \E c \in Conns : Connect(c)
    \/ \E c \in Conns, k \in AuthOutcomes : Handshake(c, k)
    \/ \E c \in Conns : RegisterSendDone(c)
    \/ \E c \in Conns, k \in MsgKinds : Receive(c, k)
    \/ \E c \in Conns : LoopEnd(c)
    \/ \E b \in BcIds, c \in Conns : BcSend(b, c)
    \/ \E a \in {"add", "remove", "change"} : UdevPoll(a)
    \/ \E b \in BcIds : UdevBcStart(b)
    \/ TickUpdate
    \/ TickBcDone
    \/ TickDetectHW
    \/ TickHwNext
    \/ TickHwAlert
    \/ TickDetectPool
    \/ TickPoolNext
    \/ TickPoolAlert

\* the daemon: connections, the tick loop and the udev listener, interleaved, while
\* no probe raises (probe and start-up faults are in SpecMain)
Spec == Init /\ [][Next]_vars

\* the change detector alone, driven with every sequence of snapshots
InitDetect == DetInit /\ HubInit /\ AlertInit /\ MainInit
NextDetect == (DetectHW \/ DetectPool) /\ UNCHANGED <<hubVars, alertVars, mainVars>>
SpecDetect == InitDetect /\ [][NextDetect]_vars

\* the disk diff alone, over the finer temperature readings
NextTemps == DetectTemps /\ UNCHANGED <<hubVars, alertVars, mainVars>>
SpecTemps == InitDetect /\ [][NextTemps]_vars

\* the pool diff alone, over several pools
NextPools ==
    /\ DetectPools
    /\ UNCHANGED <<alive, clients, system_state, pc, authVars, out, failedBc, tickVars, bc,
                   alertVars, mainVars>>
SpecPools == InitDetect /\ [][NextPools]_vars

\* the alert dispatcher alone, under every configuration
InitAlert ==
    /\ DetInit /\ HubInit /\ MainInit
    /\ alerting = TRUE
    /\ config \in Configs
    /\ alert_call = NoCall
    /\ alerted = <<>>
SpecAlert == InitAlert /\ [][Alert]_vars

\* the default configuration, and two with the webhook channel enabled: one with every
\* alert setting on, one with 'pool_degraded' off
MainConfigs ==
    {DefaultConfig,
     [DefaultConfig EXCEPT !.enabled["webhook"] = TRUE],
     [DefaultConfig EXCEPT !.enabled["webhook"] = TRUE, !.alerts["pool_degraded"] = FALSE]}

\* main() with its two background tasks and no connection: the tick loop over every
\* reading, with and without the alerting module, and the udev listener from its start
InitMain ==
    /\ DetInit /\ HubInit
    /\ alerting \in BOOLEAN
    /\ config \in MainConfigs
    /\ alert_call = NoCall
    /\ alerted = <<>>
    /\ worlds = MainWorlds
    /\ upc = "init"
    /\ proc = "running"
NextMain ==
    \/ \E ok \in BOOLEAN : MainStartUdev(ok)
    \/ \E ok \in BOOLEAN : UdevStart(ok)
    \/ \E a \in {"add", "remove", "change"} : UdevPoll(a)
    \/ UdevPollError
    \/ \E b \in BcIds : UdevBcStart(b)
    \/ TickUpdate
    \/ TickUpdateError
    \/ TickDetectHW
    \/ TickHwNext
    \/ TickHwAlert
    \/ TickDetectPool
    \/ TickPoolNext
    \/ TickPoolAlert
SpecMain == InitMain /\ [][NextMain]_vars

\* the default configuration, and one with the webhook channel enabled
SnapConfigs == {DefaultConfig, [DefaultConfig EXCEPT !.enabled["webhook"] = TRUE]}

\* one connection and the tick loop with probes that can raise, with and without the
\* alerting module: the snapshots and events sent and the alert calls made
InitSnap ==
    /\ DetInit /\ HubStart
    /\ alerting \in BOOLEAN
    /\ config \in SnapConfigs
    /\ alert_call = NoCall
    /\ alerted = <<>>
    /\ system_state = [cpu |-> 0, network |-> 0, disks |-> EmptyDict, zfs_pools |-> EmptyDict]
    /\ worlds = SnapWorlds
    /\ upc = "polling"
    /\ proc = "running"
NextSnap ==
    \/ PeerClose(ConnOrder[1])
    \/ Connect(ConnOrder[1])
    \/ \E k \in AuthOutcomes : Handshake(ConnOrder[1], k)
    \/ RegisterSendDone(ConnOrder[1])
    \/ \E k \in MsgKinds : Receive(ConnOrder[1], k)
    \/ LoopEnd(ConnOrder[1])
    \/ BcSend(0, ConnOrder[1])
    \/ TickUpdate
    \/ TickUpdateError
    \/ TickBcDone
    \/ TickDetectHW
    \/ TickHwNext
    \/ TickHwAlert
    \/ TickDetectPool
    \/ TickPoolNext
    \/ TickPoolAlert
SpecSnap == InitSnap /\ [][NextSnap]_vars

\* the same, with a session that can expire at any time
NextAuth == NextSnap \/ SessionExpires(ConnOrder[1])
SpecAuth == InitSnap /\ [][NextAuth]_vars

\* the same, until a signal stops the process
NextStop == NextSnap \/ \E sig \in Signals : Shutdown(sig)
SpecStop == InitSnap /\ [][NextStop]_vars

-----------------------------------------------------------------------------
(* Properties of the broadcast hub (checked under Spec).                   *)

FailedHandshakes == {"timeout", "unparseable", "nonobject", "nocred", "rejected"}
IsEvent(e) == e.src = "tick" /\ e.type \in EventTypes

\* C1: every connection in the registry completed a handshake the credential
\* oracle accepted; a connection whose handshake ended by timeout, malformed
\* message, or missing or invalid credential is closed, is not in the
\* registry, and was never sent initial_state, state_update or an event.
C1_RegistryAuthenticated ==
    /\ \A c \in clients : authOK[c]
    /\ \A c \in Conns : pc[c] = "refused" =>
          c \notin clients /\ ~alive[c] /\ ~out[c].data
    /\ (lastStep.op = "handshake" /\ lastStep.kind \in FailedHandshakes) =>
          pc[lastStep.c] = "refused"

C1_Witness ==
    /\ lastStep.op = "handshake" /\ lastStep.kind = "rejected"
    /\ \E c \in clients : c # lastStep.c /\ authOK[c] /\ out[c].data

\* C2 (as stated): once the handler of a registered subscriber's connection
\* has ended, whatever ended it, the subscriber is not in the registry.
C2_EndedIsUnregistered ==
    \A c \in Conns : pc[c] = "done" => c \notin clients

\* C3: a broadcast gathers one send per member of the registry at its start;
\* every gathered send is run whether or not another one failed, no failure is
\* raised out of the broadcast, and the tick loop resumes after all were run.
C3_BroadcastReachesAll ==
    /\ lastStep.op = "broadcast" =>
          \E b \in BcIds : /\ bc[b].st = "sending"
                           /\ bc[b].targets = clients /\ bc[b].pending = clients
    /\ \A b \in BcIds : bc[b].st = "sending" =>
          /\ bc[b].sent \cup bc[b].pending = bc[b].targets
          /\ bc[b].sent \cap bc[b].pending = {}
          /\ ~bc[b].raised
    /\ lastStep.op = "bcdone" =>
          lastStep.sent = lastStep.targets /\ ~lastStep.raised

C3_Witness ==
    /\ lastStep.op = "bcdone"
    /\ \E c, d \in lastStep.targets : c # d /\ failedBc[c] /\ ~alive[c] /\ alive[d]

\* C4 (as stated): no broadcast gathers a send for a subscriber for which a
\* send of an earlier broadcast failed.
C4_NoSendAfterFailure ==
    lastStep.op = "broadcast" => lastStep.stale = {}

\* C5 (as stated): within a tick, every change event sent to a subscriber was
\* preceded by that tick's state_update to the same subscriber.
C5_StateBeforeEvents ==
    \A c \in Conns : \A i \in 1..Len(out[c].tlog) :
        IsEvent(out[c].tlog[i]) =>
            \E j \in 1..(i - 1) : out[c].tlog[j].type = "state_update"

\* C5 (amended): a subscriber in the registry when the tick's state_update
\* broadcast started was sent that state_update before any change event of
\* the tick; a subscriber registered later in the tick was sent, before any
\* change event of the tick, an initial_state carrying the tick's snapshot.
C5_StateOrInitialBeforeEvents ==
    \A c \in Conns : \A i \in 1..Len(out[c].tlog) :
        IsEvent(out[c].tlog[i]) =>
            IF c \in tickTargets
            THEN \E j \in 1..(i - 1) : out[c].tlog[j].type = "state_update"
            ELSE /\ out[c].tlog[1].type = "initial_state"
                 /\ out[c].tlog[1].data = system_state

C5_Witness ==
    \E c, d \in Conns :
        /\ c \in tickTargets /\ Len(out[c].tlog) = 2
        /\ out[c].tlog[1].type = "state_update" /\ IsEvent(out[c].tlog[2])
        /\ d \notin tickTargets /\ Len(out[d].tlog) = 2
        /\ out[d].tlog[1].type = "initial_state" /\ IsEvent(out[d].tlog[2])

\* C6: a connection whose handshake succeeds is in the registry and is sent
\* initial_state, carrying the current snapshot, in the same step; nothing is
\* sent to a connection before its initial_state, under every interleaving.
C6_InitialStateFirst ==
    /\ \A c \in Conns :
          (c \in clients \/ out[c].data) => out[c].first = "initial_state"
    /\ (lastStep.op = "handshake" /\ lastStep.kind = "accepted") =>
          LET c == lastStep.c
              n == Len(out[c].tlog)
          IN  /\ c \in clients
              /\ n > 0
              /\ out[c].tlog[n] = [type |-> "initial_state", src |-> "register",
                                   data |-> system_state]

C6_Witness ==
    \E c \in clients :
        /\ out[c].first = "initial_state"
        /\ \E i \in 1..Len(out[c].tlog) : out[c].tlog[i].type = "state_update"
        /\ tpc = "bc_state"

\* C7 (as stated): a handshake that fails on a received message (malformed,
\* no credential, rejected credential) sends an error message before the
\* close; a handshake that times out closes with nothing sent.
C7_ErrorOnEveryReceivedFailure ==
    lastStep.op = "handshake" =>
        LET c == lastStep.c
        IN  /\ lastStep.kind \in {"unparseable", "nonobject", "nocred", "rejected"} =>
                out[c].first = "error" /\ ~alive[c]
            /\ lastStep.kind = "timeout" => out[c].first = "none" /\ ~alive[c]

\* C7 (amended): the error message is sent exactly when the first message is
\* a JSON object whose credential is missing, empty or rejected by the oracle;
\* every other failed handshake (timeout, unparseable text, JSON that is no
\* object, peer gone, accepted credential that is no string) closes the
\* connection with nothing sent.
C7_ErrorOnCredentialFailureOnly ==
    lastStep.op = "handshake" =>
        LET c == lastStep.c
        IN  /\ lastStep.kind \in {"nocred", "rejected"} =>
                out[c].first = "error" /\ ~alive[c] /\ c \notin clients
            /\ lastStep.kind \in {"timeout", "unparseable", "nonobject", "peer_closed",
                                  "accepted_nonstr"} =>
                out[c].first = "none" /\ ~alive[c] /\ c \notin clients

C7_Witness ==
    /\ lastStep.op = "handshake" /\ lastStep.kind = "unparseable"
    /\ out[lastStep.c].first = "none" /\ pc[lastStep.c] = "refused"

\* C8 (as stated): a ping gets exactly one pong, a request_state exactly one
\* state_update; any other inbound message gets no reply, leaves the registry
\* unchanged and does not close the connection.
C8_OtherMessagesIgnored ==
    lastStep.op = "receive" =>
        /\ lastStep.kind = "ping" => lastStep.reply = <<"pong">>
        /\ lastStep.kind = "request_state" => lastStep.reply = <<"state_update">>
        /\ lastStep.kind \in {"other_type", "unparseable", "nonobject"} =>
              /\ lastStep.reply = <<>>
              /\ ~lastStep.ended
              /\ lastStep.c \in clients /\ pc[lastStep.c] = "loop"

-----------------------------------------------------------------------------
(* Properties of the change detector (checked under SpecDetect).           *)

\* how many events of a list satisfy a test
Count(evs, Test(_)) == Cardinality({i \in 1..Len(evs) : Test(evs[i])})

\* C9: a detect call whose fresh snapshot equals the retained one returns no
\* event, for disks (hot disks included) and for pools (degraded or
\* rebuilding pools included).
C9_DetectSameIsEmpty ==
    /\ (hw_calls /\ prev_disk_state = last_disk_state) => hw_changes = <<>>
    /\ (pool_calls /\ prev_pool_state = last_pool_state) => pool_changes = <<>>

C9_Witness ==
    /\ hw_calls /\ prev_disk_state = last_disk_state
    /\ \E d \in DOMAIN last_disk_state : last_disk_state[d].temperature > TempThreshold
    /\ pool_calls /\ prev_pool_state = last_pool_state
    /\ \E p \in DOMAIN last_pool_state :
          /\ last_pool_state[p].health # "ONLINE"
          /\ last_pool_state[p].resilver # NoneVal

\* C10: a detect call returns exactly one disk_added per disk in the fresh
\* snapshot and not in the retained one, exactly one disk_removed per disk in
\* the retained snapshot and not in the fresh one, and none for any other
\* disk (so a disk that stays present is reported added only when it appears).
C10_AddedRemovedExact ==
    hw_calls =>
        \A d \in DiskIds :
            /\ Count(hw_changes, LAMBDA e : e.type = "disk_added" /\ e.disk = d)
                 = IF d \in DOMAIN last_disk_state /\ d \notin DOMAIN prev_disk_state
                   THEN 1 ELSE 0
            /\ Count(hw_changes, LAMBDA e : e.type = "disk_removed" /\ e.disk = d)
                 = IF d \in DOMAIN prev_disk_state /\ d \notin DOMAIN last_disk_state
                   THEN 1 ELSE 0

C10_Witness ==
    /\ hw_calls
    /\ \E d1, d2, d3 \in DiskIds :
          /\ d1 \in DOMAIN last_disk_state /\ d1 \notin DOMAIN prev_disk_state
          /\ d2 \in DOMAIN prev_disk_state /\ d2 \notin DOMAIN last_disk_state
          /\ \E i, j \in 1..Len(hw_changes) :
                /\ hw_changes[i] = [type |-> "disk_added", disk |-> d1]
                /\ hw_changes[j] = [type |-> "disk_removed", disk |-> d2]

\* whether the latest detect_hardware_changes call warned about disk d
Warned(d) == \E i \in 1..Len(hw_changes) :
                hw_changes[i].type = "disk_temperature_warning" /\ hw_changes[i].disk = d

\* C11 (as stated): a disk gets a temperature warning exactly when it is in
\* both the retained and the fresh snapshot, its fresh temperature is known
\* and above 50, and no prior temperature was recorded or the fresh reading
\* exceeds the prior one by more than 5.
C11_WarningOnlyWhenInBoth ==
    hw_calls =>
        \A d \in DiskIds :
            Warned(d) <=>
                /\ d \in DOMAIN prev_disk_state /\ d \in DOMAIN last_disk_state
                /\ last_disk_state[d].temperature # NoneVal
                /\ last_disk_state[d].temperature > TempThreshold
                /\ \/ prev_disk_state[d].temperature = NoneVal
                   \/ last_disk_state[d].temperature
                        > prev_disk_state[d].temperature + TempDelta

\* C11 (amended): a disk gets exactly one temperature warning, carrying the
\* fresh reading, when it is in the fresh snapshot with a known temperature
\* above 50 and either it has no retained record, or no prior temperature
\* (none, or a reading of 0) was recorded, or the fresh reading exceeds the
\* prior one by more than 5; otherwise it gets none.
C11_WarningOnFreshDisk ==
    hw_calls =>
        \A d \in DiskIds :
            LET n == Count(hw_changes,
                           LAMBDA e : e.type = "disk_temperature_warning" /\ e.disk = d)
                due == /\ d \in DOMAIN last_disk_state
                       /\ last_disk_state[d].temperature # NoneVal
                       /\ last_disk_state[d].temperature > TempThreshold
                       /\ \/ d \notin DOMAIN prev_disk_state
                          \/ prev_disk_state[d].temperature \in {NoneVal, 0}
                          \/ last_disk_state[d].temperature
                               > prev_disk_state[d].temperature + TempDelta
            IN  /\ n = IF due THEN 1 ELSE 0
                /\ \A i \in 1..Len(hw_changes) :
                      (hw_changes[i].type = "disk_temperature_warning"
                         /\ hw_changes[i].disk = d)
                      => hw_changes[i].temperature = last_disk_state[d].temperature

C11_Witness ==
    /\ hw_calls
    /\ \E d, e \in DiskIds :
          /\ d \in DOMAIN prev_disk_state /\ prev_disk_state[d].temperature = 52
          /\ d \in DOMAIN last_disk_state /\ last_disk_state[d].temperature = 57
          /\ ~Warned(d)
          /\ e \notin DOMAIN prev_disk_state
          /\ e \in DOMAIN last_disk_state /\ last_disk_state[e].temperature = 58
          /\ Warned(e)

\* how many events of a type the latest detect_pool_changes call returned for pool p
PoolCount(type, p) ==
    Count(pool_changes, LAMBDA e : e.type = type /\ e.pool = p)
\* the rebuild-progress value a snapshot holds for pool p, if any
HasResilver(snap, p) == p \in DOMAIN snap /\ snap[p].resilver # NoneVal

\* C12 (as stated): a pool with a rebuild-progress value in the fresh snapshot
\* and none in the retained one yields resilver_started; a pool with a value
\* in the retained snapshot that the fresh one lists without a value yields
\* resilver_completed; one call never returns events of both types.
C12_NeverBothInOneCall ==
    pool_calls =>
        /\ \A p \in PoolIds :
              /\ (HasResilver(last_pool_state, p) /\ ~HasResilver(prev_pool_state, p))
                    => PoolCount("resilver_started", p) = 1
              /\ (HasResilver(prev_pool_state, p) /\ p \in DOMAIN last_pool_state
                                                  /\ ~HasResilver(last_pool_state, p))
                    => PoolCount("resilver_completed", p) = 1
        /\ ~ \E i, j \in 1..Len(pool_changes) :
                /\ pool_changes[i].type = "resilver_started"
                /\ pool_changes[j].type = "resilver_completed"

\* C12 (amended): for a pool in the fresh snapshot, one resilver_started is
\* returned exactly when the fresh snapshot has a rebuild-progress value and
\* the retained one has none (or no record of the pool), one
\* resilver_completed exactly when the retained snapshot has a value and the
\* fresh one has none; a pool absent from the fresh snapshot yields neither;
\* no call returns both for the same pool.
C12_NeverBothForOnePool ==
    pool_calls =>
        \A p \in PoolIds :
            LET fresh == p \in DOMAIN last_pool_state
            IN  /\ PoolCount("resilver_started", p)
                     = IF fresh /\ HasResilver(last_pool_state, p)
                                /\ ~HasResilver(prev_pool_state, p) THEN 1 ELSE 0
                /\ PoolCount("resilver_completed", p)
                     = IF fresh /\ ~HasResilver(last_pool_state, p)
                                /\ HasResilver(prev_pool_state, p) THEN 1 ELSE 0
                /\ PoolCount("resilver_started", p) + PoolCount("resilver_completed", p) <= 1

C12_Witness ==
    /\ pool_calls
    /\ \E p, q \in PoolIds :
          /\ p # q
          /\ PoolCount("resilver_started", p) = 1
          /\ PoolCount("resilver_completed", q) = 1
          /\ HasResilver(prev_pool_state, q) /\ q \in DOMAIN last_pool_state

\* the pool_health_change events the latest detect_pool_changes call returned for pool p
HealthEvents(p) ==
    SelectSeq(pool_changes, LAMBDA e : e.type = "pool_health_change" /\ e.pool = p)
\* the health recorded for pool p before the call, `dflt` when there is no record
PriorHealth(p, dflt) ==
    IF p \in DOMAIN prev_pool_state THEN prev_pool_state[p].health ELSE dflt

\* C13 (as stated): a pool in the fresh snapshot gets a pool_health_change
\* exactly when its fresh health differs from its recorded health, ONLINE when
\* there is no record; the event carries the value compared against as old
\* health and the fresh value as new health, so the two differ.
C13_OldHealthIsComparedValue ==
    pool_calls =>
        \A p \in DOMAIN last_pool_state :
            LET evs == HealthEvents(p)
                due == last_pool_state[p].health # PriorHealth(p, "ONLINE")
            IN  /\ Len(evs) = IF due THEN 1 ELSE 0
                /\ \A i \in 1..Len(evs) :
                      /\ evs[i].old_health = PriorHealth(p, "ONLINE")
                      /\ evs[i].new_health = last_pool_state[p].health
                      /\ evs[i].old_health # evs[i].new_health

\* C13 (amended): same test (fresh health against recorded health, ONLINE
\* when there is no record); the event carries the fresh health as new
\* health and, as old health, the recorded health when there is a record and
\* UNKNOWN when there is none.
C13_OldHealthUnknownForNewPool ==
    pool_calls =>
        \A p \in DOMAIN last_pool_state :
            LET evs == HealthEvents(p)
                due == last_pool_state[p].health # PriorHealth(p, "ONLINE")
            IN  /\ Len(evs) = IF due THEN 1 ELSE 0
                /\ \A i \in 1..Len(evs) :
                      /\ evs[i].old_health = PriorHealth(p, "UNKNOWN")
                      /\ evs[i].new_health = last_pool_state[p].health
                      /\ p \in DOMAIN prev_pool_state
                            => evs[i].old_health # evs[i].new_health

C13_Witness ==
    /\ pool_calls
    /\ \E p, q \in DOMAIN last_pool_state :
          /\ p \notin DOMAIN prev_pool_state
          /\ last_pool_state[p].health = "DEGRADED"
          /\ HealthEvents(p) = <<[type |-> "pool_health_change", pool |-> p,
                                  old_health |-> "UNKNOWN", new_health |-> "DEGRADED"]>>
          /\ q \in DOMAIN prev_pool_state
          /\ prev_pool_state[q].health = "DEGRADED" /\ last_pool_state[q].health = "ONLINE"
          /\ Len(HealthEvents(q)) = 1

-----------------------------------------------------------------------------
(* Properties of the alert dispatcher (checked under SpecAlert).           *)

Called == alert_call.event_type # "none"
\* the event type of the latest call is marked true in the alert configuration
Marked == /\ alert_call.event_type \in DOMAIN config.alerts
          /\ config.alerts[alert_call.event_type]
\* the transport calls the latest alert call made on channel ch
SendsOn(ch) == SelectSeq(alert_call.sends, LAMBDA s : s.channel = ch)

\* C14: an alert call for an event type marked false in, or absent from, the
\* alert configuration makes no transport call on any channel and returns no
\* result mapping.
C14_SuppressedSendsNothing ==
    (Called /\ ~Marked) => alert_call.sends = <<>> /\ alert_call.ret = "none"

C14_Witness ==
    /\ Called /\ alert_call.ret = "none"
    /\ alert_call.event_type \in DOMAIN config.alerts /\ ~config.alerts[alert_call.event_type]
    /\ \E t \in CheckedNames : t \notin DOMAIN config.alerts
    /\ \A ch \in Channels : config.enabled[ch]

\* C15: an alert call for an enabled event type makes the transport call of
\* every enabled channel exactly once, in channel order, whatever the outcome
\* of the others, and returns normally.
C15_EveryEnabledChannelAttempted ==
    (Called /\ Marked) =>
        /\ alert_call.ret = "results"
        /\ \A ch \in Channels : Len(SendsOn(ch)) = IF config.enabled[ch] THEN 1 ELSE 0
        /\ [i \in 1..Len(alert_call.sends) |-> alert_call.sends[i].channel]
              = SelectSeq(ChannelOrder, LAMBDA ch : config.enabled[ch])

C15_Witness ==
    /\ Called /\ Marked
    /\ Len(alert_call.sends) = 3
    /\ alert_call.sends[1].outcome = "error"
    /\ alert_call.sends[2].outcome = "bad_status"
    /\ alert_call.sends[3].outcome = "ok"
    /\ \E ch \in Channels : ~config.enabled[ch]

\* C16: an alert call for an enabled event type returns a mapping over the
\* four channels whose value for a channel is true exactly when the channel
\* is enabled and its transport call succeeded; a disabled channel gets no
\* transport call.
C16_ResultIsEnabledAndSucceeded ==
    (Called /\ Marked) =>
        /\ alert_call.ret = "results"
        /\ DOMAIN alert_call.results = Channels
        /\ \A ch \in Channels :
              /\ alert_call.results[ch] \in BOOLEAN
              /\ alert_call.results[ch] <=>
                    /\ config.enabled[ch]
                    /\ \E i \in 1..Len(alert_call.sends) :
                          /\ alert_call.sends[i].channel = ch
                          /\ alert_call.sends[i].outcome = "ok"
              /\ ~config.enabled[ch] => SendsOn(ch) = <<>>

C16_Witness ==
    /\ Called /\ Marked /\ alert_call.ret = "results"
    /\ \E a, b, c \in Channels :
          /\ config.enabled[a] /\ alert_call.results[a]
          /\ config.enabled[b] /\ ~alert_call.results[b]
          /\ ~config.enabled[c] /\ ~alert_call.results[c]

\* a channel's native value for the level normal, and its most urgent value
DefaultNative(ch) ==
    CASE ch = "email" -> "none" [] ch = "pushover" -> 0
      [] ch = "ntfy" -> "default" [] ch = "webhook" -> "normal"
MostUrgentNative(ch) ==
    CASE ch = "email" -> "high" [] ch = "pushover" -> 2
      [] ch = "ntfy" -> "urgent" [] ch = "webhook" -> "critical"
ElevatedNative(ch) ==
    CASE ch = "email" -> "none" [] ch = "pushover" -> 1
      [] ch = "ntfy" -> "high" [] ch = "webhook" -> "warning"

\* C17 (as stated): on every channel, critical is sent as the channel's most
\* urgent value, normal as its default value, and warning as a value of its
\* own, elevated above the default.
C17_WarningElevatedEverywhere ==
    \A i \in 1..Len(alert_call.sends) :
        LET s == alert_call.sends[i]
        IN  /\ alert_call.priority = "critical" => s.native = MostUrgentNative(s.channel)
            /\ alert_call.priority = "normal" => s.native = DefaultNative(s.channel)
            /\ alert_call.priority = "warning" =>
                  /\ s.native # DefaultNative(s.channel)
                  /\ s.native # MostUrgentNative(s.channel)

\* C17 (amended): each level is sent as one fixed value per channel: critical
\* as the most urgent value; normal as the default; warning as an elevated
\* value on the two push services and the webhook, and as the default (no
\* priority header) on mail.
C17_WarningElevatedExceptMail ==
    \A i \in 1..Len(alert_call.sends) :
        LET s == alert_call.sends[i]
        IN  /\ alert_call.priority = "critical" => s.native = MostUrgentNative(s.channel)
            /\ alert_call.priority = "normal" => s.native = DefaultNative(s.channel)
            /\ alert_call.priority = "warning" =>
                  /\ s.native = ElevatedNative(s.channel)
                  /\ s.native # MostUrgentNative(s.channel)
                  /\ s.channel # "email" => s.native # DefaultNative(s.channel)
                  /\ s.channel = "email" => s.native = DefaultNative(s.channel)

C17_Witness ==
    /\ Called /\ alert_call.priority = "warning"
    /\ Len(alert_call.sends) = 4
    /\ alert_call.sends[1].native = "none"
    /\ alert_call.sends[2].native = 1
    /\ alert_call.sends[3].native = "high"

-----------------------------------------------------------------------------
(* Claims about main() and the tick loop's alert calls (SpecMain).          *)

\* C18 (as stated): a fault of the hot-plug listener, at its construction, at
\* its start or while it polls, leaves the tick loop running, and an error
\* raised inside a tick leaves the following ticks and the listener running.
C18_FaultsIsolated ==
    /\ upc \in {"absent", "failed"} => proc = "running"
    /\ lastStep.op = "udev_error" => proc = "running" /\ upc = "polling"
    /\ lastStep.op = "tick_error" =>
          proc = "running" /\ tpc = "sleep" /\ upc \notin {"failed"}

\* the changes of the current tick whose alert branch the tick loop has passed
AlertsDue ==
    LET hwDone == CASE tpc \in {"hw_loop", "bc_hw", "alert_hw"} -> ci - 1
                    [] tpc \in {"detect_pool", "pool_loop", "bc_pool", "alert_pool"} ->
                           Len(hw_changes)
                    [] OTHER -> 0
        poolDone == IF tpc \in {"pool_loop", "bc_pool", "alert_pool"} THEN ci - 1 ELSE 0
    IN  SubSeq(hw_changes, 1, hwDone) \o SubSeq(pool_changes, 1, poolDone)
\* the changes the alert dispatcher was called for in the current tick, in call order
AlertedChanges == [i \in 1..Len(alerted) |-> alerted[i].change]

\* C19 (as stated): the alert dispatcher is called exactly once for each change
\* the tick loop detected, in the tick that detected it and in detection order,
\* never twice for one change and never for a hot-plug notification.
C19_OneCallPerChange ==
    AlertedChanges = AlertsDue

\* C19 (amended): when the alerting module was loaded, the alert dispatcher is
\* called exactly once for each change the tick loop detected, in the tick that
\* detected it, and never for a hot-plug notification; when the module could
\* not be loaded, no call is made for any change.
C19_OneCallPerChangeWhenLoaded ==
    AlertedChanges = IF alerting THEN AlertsDue ELSE <<>>

C19_Witness ==
    /\ alerting
    /\ tpc = "pool_loop" /\ ci > Len(pool_changes)
    /\ Len(hw_changes) = 2 /\ Len(pool_changes) >= 1
    /\ Len(alerted) = Len(hw_changes) + Len(pool_changes)
    /\ upc = "polling"

-----------------------------------------------------------------------------
(* Claims about the hot-plug listener (Spec).                                *)

\* C20: handling an add or remove notification creates one broadcast of a
\* hardware_event message, which gathers one send per member of the registry
\* when it starts; handling a notification, and starting its broadcast, leave
\* the detector's retained disk and pool snapshots and the alert calls
\* unchanged; a notification with another action creates no broadcast.
C20_HotplugBypassesDiff ==
    [][/\ \A a \in {"add", "remove"} : UdevPoll(a) =>
             /\ \E b \in 1..MaxUdev : bc[b].st = "idle" /\ bc'[b].st = "created"
             /\ \A b \in BcIds : bc'[b] # bc[b] => b > 0 /\ bc[b].st = "idle"
       /\ UdevPoll("change") => UNCHANGED <<bc, out>>
       /\ \A b \in 1..MaxUdev : bc[b].st = "created" /\ bc'[b].st # "created" =>
             IF clients = {} THEN bc'[b].st = "idle"
             ELSE /\ bc'[b].st = "sending" /\ bc'[b].msg = "hardware_event"
                  /\ bc'[b].targets = clients /\ bc'[b].pending = clients
       /\ \A b \in 1..MaxUdev, c \in Conns :
             bc[b].st = "sending" /\ c \in bc[b].pending /\ c \notin bc'[b].pending =>
                /\ bc[b].msg = "hardware_event"
                /\ out'[c] = Sent(out[c], "hardware_event", "udev")
       /\ ((\E a \in {"add", "remove", "change"} : UdevPoll(a))
              \/ (\E b \in 1..MaxUdev : bc[b].st = "created" /\ bc'[b].st # "created")
              \/ (\E b \in 1..MaxUdev : bc[b].st = "sending" /\ bc'[b] # bc[b])) =>
             UNCHANGED <<last_disk_state, last_pool_state, hw_changes, pool_changes,
                         hw_calls, pool_calls, alert_call, alerted>>
      ]_vars

C20_Witness ==
    /\ \E b \in 1..MaxUdev :
          /\ bc[b].st = "sending" /\ bc[b].msg = "hardware_event"
          /\ Cardinality(bc[b].targets) = 2 /\ bc[b].sent # {} /\ bc[b].pending # {}
    /\ last_disk_state # EmptyDict
    /\ tpc = "sleep"

-----------------------------------------------------------------------------
(* Claims about the snapshots a tick works on (SpecMain).                   *)

\* C21 (as stated): every change event of a tick is consistent with the state
\* the same tick put in its state_update: an added disk is in it, a removed
\* disk is not, a warned temperature, a reported pool health and a reported
\* rebuild status equal the ones in it.
C21_EventsMatchStateUpdate ==
    /\ \A i \in 1..Len(hw_changes) :
          LET e == hw_changes[i]
          IN  /\ e.type = "disk_added" => e.disk \in DOMAIN system_state.disks
              /\ e.type = "disk_removed" => e.disk \notin DOMAIN system_state.disks
              /\ e.type = "disk_temperature_warning" =>
                    /\ e.disk \in DOMAIN system_state.disks
                    /\ system_state.disks[e.disk].temperature = e.temperature
    /\ \A i \in 1..Len(pool_changes) :
          LET e == pool_changes[i]
          IN  /\ e.pool \in DOMAIN system_state.zfs_pools
              /\ e.type = "pool_health_change" =>
                    system_state.zfs_pools[e.pool].health = e.new_health
              /\ e.type = "resilver_started" =>
                    system_state.zfs_pools[e.pool].resilver = e.progress
              /\ e.type = "resilver_completed" =>
                    ~ResilverPresent(system_state.zfs_pools[e.pool].resilver)

-----------------------------------------------------------------------------
(* Claims about the snapshots sent to subscribers (SpecSnap).               *)

\* the step just taken sent system_state to a subscriber: in initial_state, in the
\* reply to request_state, or as the message of the tick's state_update broadcast
SnapshotSent ==
    \/ lastStep.op = "handshake" /\ Registers(lastStep.kind)
    \/ lastStep.op = "receive" /\ lastStep.reply = <<"state_update">>
    \/ lastStep.op = "broadcast" /\ bc[0].st = "sending" /\ bc[0].msg = "state_update"
\* a snapshot with fields read by two different acquisitions
Mixed(s) == s.cpu # 0 /\ s.network # 0 /\ s.cpu # s.network

\* C24 (as stated): no snapshot sent to a subscriber, in initial_state, in a
\* state_update broadcast or in the reply to request_state, mixes fields
\* sampled in two different ticks, also after a tick whose acquisition failed
\* part-way.
C24_NoMixedSnapshotSent ==
    SnapshotSent => ~Mixed(system_state)

\* the tick loop has passed the last change of the tick: its next step is the sleep
TickDone == tpc = "pool_loop" /\ ci > Len(pool_changes)
\* the changes the current tick detected, in detection order
TickChanges == hw_changes \o pool_changes
\* the messages the tick loop's broadcasts called send with on a connection
TickSends(c) ==
    LET l == SelectSeq(out[c].tlog, LAMBDA e : e.src = "tick")
    IN  [i \in 1..Len(l) |-> l[i].type]
\* what a subscriber in the registry for the whole tick is sent by the tick loop
TickMessages == <<"state_update">> \o [i \in 1..Len(TickChanges) |-> TickChanges[i].type]

\* C22 (as stated): the tick loop samples only between ticks, and when a tick
\* ends, every change it detected was sent to each subscriber registered for
\* the whole tick and was handed to the alert dispatcher, whether or not a send
\* to a subscriber or to an alert channel failed for another change.
C22_AllEventsProcessed ==
    [][/\ system_state' # system_state => tpc = "sleep"
       /\ (tpc # "sleep" /\ tpc' = "sleep") =>
             /\ TickDone
             /\ \A c \in tickTargets \cap clients : TickSends(c) = TickMessages
             /\ AlertedChanges = TickChanges
      ]_vars

\* C22 (amended): the tick loop samples only between ticks, and when a tick
\* ends, every change it detected was sent to each subscriber registered for
\* the whole tick and, when the alerting module was loaded, was handed to the
\* alert dispatcher, whether or not a send to a subscriber or to an alert
\* channel failed for another change; when the module could not be loaded no
\* change is handed to it.
C22_AllEventsProcessedWhenLoaded ==
    [][/\ system_state' # system_state => tpc = "sleep"
       /\ (tpc # "sleep" /\ tpc' = "sleep") =>
             /\ TickDone
             /\ \A c \in tickTargets \cap clients : TickSends(c) = TickMessages
             /\ AlertedChanges = IF alerting THEN TickChanges ELSE <<>>
      ]_vars

C22_Witness ==
    /\ TickDone /\ alerting
    /\ Len(hw_changes) >= 1 /\ Len(pool_changes) >= 1
    /\ \E c \in tickTargets \cap clients :
          ~alive[c] /\ failedBc[c] /\ TickSends(c) = TickMessages
    /\ Len(alerted) = Len(TickChanges)
    /\ \E i \in 1..Len(alert_call.sends) : alert_call.sends[i].outcome = "error"

-----------------------------------------------------------------------------
(* Claims about the detector's retained snapshots (SpecMain).               *)

\* C23 (as stated): the retained snapshots are written only at the end of a
\* tick: after a step that writes one, the tick has no change left to
\* broadcast or alert and nothing left to detect.
C23_RetainedWrittenAtTickEnd ==
    [][(last_disk_state' # last_disk_state \/ last_pool_state' # last_pool_state) =>
          \/ tpc' = "sleep"
          \/ tpc' = "pool_loop" /\ pool_changes' = <<>>
      ]_vars

\* C23 (amended): each diff call of the tick loop compares the fresh snapshot
\* against the retained one and replaces the retained one with the fresh one
\* whether or not an event was found; the retained snapshots are written by
\* no other step, and the diff calls are steps of the one tick loop at its two
\* detection points, the disk diff before the tick's disk changes are
\* broadcast and the pool diff after them, before the tick's pool changes.
C23_RetainedReplacedByDiffCalls ==
    [][/\ lastStep'.op = "detect_hw" =>
             /\ tpc = "detect_hw" /\ tpc' = "hw_loop" /\ cpu = "tick"
             /\ hw_changes' = DetectHardwareChanges(last_disk_state, lastStep'.current)
             /\ last_disk_state' = lastStep'.current
             /\ UNCHANGED last_pool_state
       /\ lastStep'.op = "detect_pool" =>
             /\ tpc = "detect_pool" /\ tpc' = "pool_loop" /\ cpu = "tick"
             /\ pool_changes' = DetectPoolChanges(last_pool_state, lastStep'.current)
             /\ last_pool_state' = lastStep'.current
             /\ UNCHANGED last_disk_state
       /\ lastStep'.op \notin {"detect_hw", "detect_pool"} =>
             UNCHANGED <<last_disk_state, last_pool_state>>
      ]_vars

C23_Witness ==
    /\ lastStep.op = "detect_hw"
    /\ hw_changes = <<>>
    /\ last_disk_state = lastStep.current
    /\ last_disk_state # EmptyDict
    /\ \E d \in DOMAIN last_disk_state : last_disk_state[d].temperature = NoneVal
    /\ \E d \in DOMAIN system_state.disks : system_state.disks[d].temperature # NoneVal
    /\ upc = "polling"

-----------------------------------------------------------------------------
(* Claims about the end of the process (SpecStop).                          *)

\* C25 (as stated): when a signal has stopped the process, the registry is
\* empty and no send that was in flight was aborted.
C25_ShutdownClearsRegistry ==
    proc = "exited" =>
        /\ clients = {}
        /\ \A b \in BcIds : bc[b].st = "idle" \/ bc[b].pending = {}

-----------------------------------------------------------------------------
(* Claims about the credential oracle (SpecAuth).                           *)

\* the first message of a handshake carried a credential (a truthy session_id)
CredentialPresented(k) ==
    k \notin {"timeout", "peer_closed", "unparseable", "nonobject", "nocred"}

\* C26 (as stated): the credential oracle is consulted exactly once for every
\* connection whose handshake is over.
C26_OracleOncePerConnection ==
    \A c \in Conns : pc[c] \notin {"new", "auth_wait"} => oracle_calls[c] = 1

\* C26 (amended): the credential oracle is consulted only during the
\* handshake and at most once per connection: once when the first message
\* carries a credential, never when the handshake ends without one; every
\* connection that enters the registry was consulted for once. The expiry of a
\* session changes nothing in the daemon: the subscriber stays in the
\* registry, later broadcasts still gather a send for it, and it leaves the
\* registry only when its connection has ended.
C26_OracleAtHandshakeOnly ==
    [][/\ \A c \in Conns :
             /\ oracle_calls'[c] # oracle_calls[c] =>
                   pc[c] = "auth_wait" /\ lastStep'.op = "handshake" /\ lastStep'.c = c
             /\ (pc[c] = "auth_wait" /\ pc'[c] # "auth_wait") =>
                   /\ lastStep'.op = "handshake" /\ lastStep'.c = c
                   /\ oracle_calls[c] = 0
                   /\ oracle_calls'[c] = IF CredentialPresented(lastStep'.kind) THEN 1 ELSE 0
             /\ (c \in clients' /\ c \notin clients) =>
                   oracle_calls'[c] = 1 /\ session_valid[c]
             /\ (c \in clients /\ c \notin clients') =>
                   pc'[c] = "done" /\ ~alive'[c]
       /\ session_valid' # session_valid =>
             UNCHANGED <<clients, pc, oracle_calls, out, bc, alive, tpc>>
       /\ \A b \in BcIds : (bc'[b].st = "sending" /\ bc[b].st # "sending") =>
             bc'[b].targets = clients
      ]_vars

C26_Witness ==
    /\ lastStep.op = "broadcast"
    /\ bc[0].st = "sending" /\ bc[0].msg \in EventTypes
    /\ \E c \in bc[0].targets :
          /\ ~session_valid[c] /\ alive[c] /\ c \in clients
          /\ oracle_calls[c] = 1

-----------------------------------------------------------------------------
(* Claims about the alert types of the tick loop (SpecMain).                *)

\* the alert call the tick loop made last in this tick, with the change it was for
LastAlerted == alerted[Len(alerted)]
\* the alert types and levels of the changes the claim names
AlertTypesAsClaimed ==
    /\ \A i \in 1..Len(alerted) :
          /\ alerted[i].change.type = "pool_health_change" =>
                alerted[i].event_type = "pool_degraded"
          /\ alerted[i].change.type = "disk_temperature_warning" =>
                alerted[i].event_type = "disk_temp_warning"
    /\ alerted # <<>> =>
          /\ alert_call.event_type = LastAlerted.event_type
          /\ LastAlerted.change.type = "pool_health_change" =>
                alert_call.priority = "critical"

\* C27 (as stated): every pool health change a tick detected, whatever its new
\* health, is handed to the alert dispatcher as 'pool_degraded' with level
\* critical, and whether it is sent at all depends only on the 'pool_degraded'
\* alert setting; a temperature warning is handed over as 'disk_temp_warning'.
C27_HealthChangeAlertedAsDegraded ==
    /\ AlertedChanges = AlertsDue
    /\ AlertTypesAsClaimed
    /\ (alerted # <<>> /\ LastAlerted.change.type = "pool_health_change") =>
          (alert_call.sends # <<>> <=> config.alerts["pool_degraded"])

\* C27 (amended): when the alerting module was loaded, every pool health
\* change a tick detected, whatever its new health, is handed to the alert
\* dispatcher as 'pool_degraded' with level critical; it is sent on a channel
\* exactly when the 'pool_degraded' alert setting is on and that channel is
\* enabled, whatever the other alert settings; a temperature warning is handed
\* over as 'disk_temp_warning'. When the module could not be loaded nothing is
\* handed over.
C27_HealthChangeAlertedAsDegradedWhenLoaded ==
    /\ AlertedChanges = IF alerting THEN AlertsDue ELSE <<>>
    /\ AlertTypesAsClaimed
    /\ (alerted # <<>> /\ LastAlerted.change.type = "pool_health_change") =>
          \A ch \in Channels :
              (\E i \in 1..Len(alert_call.sends) : alert_call.sends[i].channel = ch)
                 <=> (config.alerts["pool_degraded"] /\ config.enabled[ch])

C27_Witness ==
    /\ alerting /\ Len(alerted) >= 2
    /\ LastAlerted.change.type = "pool_health_change"
    /\ LastAlerted.change.new_health = "ONLINE"
    /\ LastAlerted.change.old_health = "DEGRADED"
    /\ alert_call.event_type = "pool_degraded" /\ alert_call.priority = "critical"
    /\ alert_call.sends # <<>>
    /\ \E i \in 1..Len(alerted) : alerted[i].event_type = "disk_temp_warning"

-----------------------------------------------------------------------------
(* Claims about pools missing from a snapshot (SpecPools).                  *)

\* the events the latest detect_pool_changes call returned for pool p
EventsAbout(p) == SelectSeq(pool_changes, LAMBDA e : e.pool = p)
\* the events of a pool seen for the first time: a rebuild in progress is reported as
\* started, a health other than ONLINE as a change from UNKNOWN
FirstSightingEvents(p, info) ==
    (IF info.resilver # NoneVal
     THEN <<[type |-> "resilver_started", pool |-> p, progress |-> info.resilver]>>
     ELSE <<>>)
    \o
    (IF info.health # "ONLINE"
     THEN <<[type |-> "pool_health_change", pool |-> p,
             old_health |-> "UNKNOWN", new_health |-> info.health]>>
     ELSE <<>>)

\* C28: after a pool diff, every event is about a pool of the fresh snapshot;
\* a pool of the retained snapshot that the fresh one does not list gets no
\* event, whatever its recorded health and rebuild status, and has no record
\* in the new retained snapshot; a pool without a record in the retained
\* snapshot, one that disappeared earlier included, gets the events of a pool
\* seen for the first time.
C28_AbsentPoolSilentlyDropped ==
    lastStep.op = "detect_pool" =>
        LET fresh == lastStep.current
            retained == prev_pool_state
        IN  /\ \A i \in 1..Len(pool_changes) : pool_changes[i].pool \in DOMAIN fresh
            /\ \A p \in DOMAIN retained \ DOMAIN fresh :
                  EventsAbout(p) = <<>> /\ p \notin DOMAIN last_pool_state
            /\ \A p \in DOMAIN fresh \ DOMAIN retained :
                  /\ EventsAbout(p) = FirstSightingEvents(p, fresh[p])
                  /\ last_pool_state[p] = fresh[p]

C28_Witness ==
    /\ lastStep.op = "detect_pool"
    /\ \E p, q \in PoolIds :
          /\ p \in DOMAIN prev_pool_state /\ p \notin DOMAIN lastStep.current
          /\ prev_pool_state[p].health = "DEGRADED" /\ prev_pool_state[p].resilver # NoneVal
          /\ EventsAbout(p) = <<>> /\ p \notin DOMAIN last_pool_state
          /\ q \notin DOMAIN prev_pool_state /\ q \in DOMAIN lastStep.current
          /\ Len(EventsAbout(q)) = 2

====
